---- MODULE Spec2Model ----
(***************************************************************************)
(* Model of scrape_maritime_news.py: MaritimeNewsScraper and main().       *)
(*                                                                         *)
(* One process invocation (a "run") is main(): construct the scraper,     *)
(* scrape_all_keywords (one fetch per query of the keyword x publisher     *)
(* matrix, each response normalised and deduplicated before the next       *)
(* fetch), save_data, final log line.  The output directory persists      *)
(* between runs; everything else is rebuilt by each run.                   *)
(*                                                                         *)
(* Strings are TLA+ strings, so f-string concatenation is \o.  md5 is      *)
(* modelled as an injective tag on its input string.  datetime.utcnow()    *)
(* is a logical clock that advances with every step of the program.       *)
(* The from/to/apiKey request parameters do not influence any state the    *)
(* program keeps and are left out of the request record.                  *)
(***************************************************************************)
EXTENDS Naturals, Sequences, FiniteSets, TLC

\* ---------------------------------------------------------------- bounds
\* how many keywords / publishers of the catalog a run iterates over
NumKeywords == 2
NumSources == 1
\* longest 'articles' list a response carries
MaxResp == 2
\* how many consecutive invocations of main() are explored
MaxRuns == 2

\* ------------------------------------------------------- query catalog
\* self.keywords (a prefix of length NumKeywords of a few catalog entries)
KeywordCatalog == <<"capesize", "panamax", "handymax", "handysize">>
keywords == SubSeq(KeywordCatalog, 1, NumKeywords)

\* self.sources
SourceCatalog == <<"reuters", "bloomberg", "financial-times", "the-wall-street-journal">>
sources == SubSeq(SourceCatalog, 1, NumSources)

\* default page_size of fetch_news, and the one passed for publisher queries
DefaultPageSize == 100
SourcePageSize == 50

\* ------------------------------------------------------ raw API records
\* dict.get(key, default)
Get(d, key, default) == IF key \in DOMAIN d THEN d[key] ELSE default

\* Raw articles the API may return.  Every field may be absent.  The first
\* two agree in title and url and differ elsewhere; the third differs from
\* them in title and in url; the fourth differs from all in title or url.
RawArticles ==
    { [title |-> "a", url |-> "b", author |-> "x"],
      [title |-> "a", url |-> "b", author |-> "y", description |-> "d"],
      [title |-> "ab", source |-> [name |-> "Reuters"]],
      [url |-> "b", publishedAt |-> "p"] }

\* the single article served in the scenario of several consecutive runs
OneArticle == { [title |-> "a", url |-> "b", author |-> "x"] }

RECURSIVE SeqsUpTo(_, _)
SeqsUpTo(S, n) ==
    IF n = 0 THEN { <<>> }
    ELSE LET shorter == SeqsUpTo(S, n - 1)
         IN  shorter \cup { Append(s, x) : s \in { t \in shorter : Len(t) = n - 1 }, x \in S }

\* what requests.get(...).json() can be after raise_for_status() passed:
\* an object without 'articles', or with a list of at most MaxResp articles
Payloads(available) ==
    { [status |-> "ok"] }
      \cup { [status |-> "ok", articles |-> s] : s \in SeqsUpTo(available, MaxResp) }

\* ------------------------------------------------------- pure functions
\* hashlib.md5(content.encode('utf-8')).hexdigest(), injective on content
md5hex(content) == <<"md5", content>>

create_article_id(article) ==
    LET content == Get(article, "title", "") \o Get(article, "url", "")
    IN  md5hex(content)

\* decimal rendering of the clock, as strftime / isoformat render a time
DigitStr == <<"0", "1", "2", "3", "4", "5", "6", "7", "8", "9">>
RECURSIVE Dec(_)
Dec(n) == IF n < 10 THEN DigitStr[n + 1] ELSE Dec(n \div 10) \o DigitStr[(n % 10) + 1]

\* datetime.utcnow().isoformat() + 'Z'
IsoZ(t) == Dec(t) \o "Z"

process_article(article, keyword, t) ==
    [ article_id       |-> create_article_id(article),
      title            |-> Get(article, "title", ""),
      link             |-> Get(article, "url", ""),
      creator          |-> Get(article, "author", ""),
      pubdate          |-> Get(article, "publishedAt", ""),
      category         |-> keyword,
      description      |-> Get(article, "description", ""),
      source           |-> Get(Get(article, "source", <<>>), "name", ""),
      scrape_timestamp |-> IsoZ(t) ]

\* the request fetch_news sends
Request(query, page_size) ==
    [ q |-> query, sortBy |-> "publishedAt", pageSize |-> page_size, language |-> "en" ]

\* f"{keyword} source:{source}"
SourceQuery(keyword, source) == keyword \o " source:" \o source

\* variant: the publisher query passes the bare keyword as category
SourceCategoryBare(keyword, source) == keyword

\* f"{keyword} (source: {source})"
SourceCategory(keyword, source) == keyword \o " (source: " \o source \o ")"

\* 'news_data and news_data.get("articles")'; None is the failed fetch
None == [none |-> TRUE]
HasArticles(news_data) ==
    /\ news_data # None
    /\ Get(news_data, "articles", <<>>) # <<>>

\* variant: the membership test is missing, every article is appended
AddAlways(acc, processed) ==
    [ all |-> Append(acc.all, processed), seen |-> acc.seen \cup { processed.article_id } ]

\* variant: a repeated identifier overwrites the record kept for it
AddOrReplace(acc, processed) ==
    IF processed.article_id \notin acc.seen
    THEN [ all |-> Append(acc.all, processed), seen |-> acc.seen \cup { processed.article_id } ]
    ELSE [ all |-> [ i \in 1..Len(acc.all) |->
                       IF acc.all[i].article_id = processed.article_id
                       THEN processed ELSE acc.all[i] ],
           seen |-> acc.seen ]

\* 'if article_id not in seen_ids: seen_ids.add(...); all_articles.append(...)'
\* acc is the pair [all |-> all_articles, seen |-> seen_ids]
AddIfUnseen(acc, processed) ==
    IF processed.article_id \notin acc.seen
    THEN [ all |-> Append(acc.all, processed), seen |-> acc.seen \cup { processed.article_id } ]
    ELSE acc

\* variant: the loop is left after its first article
AccumulateFirstOnly(acc, articles, category, t) ==
    IF articles = <<>> THEN acc
    ELSE AddIfUnseen(acc, process_article(Head(articles), category, t))

\* 'for article in articles: processed = process_article(article, category) ...'
RECURSIVE Accumulate(_, _, _, _)
Accumulate(acc, articles, category, t) ==
    IF articles = <<>> THEN acc
    ELSE Accumulate(AddIfUnseen(acc, process_article(Head(articles), category, t)),
                    Tail(articles), category, t)

\* the body of one loop iteration after the fetch returned news_data
Absorb(acc, news_data, category, t) ==
    IF HasArticles(news_data)
    THEN Accumulate(acc, news_data.articles, category, t)
    ELSE acc

\* ------------------------------------------------------------ persister
\* columns of pd.DataFrame(articles): the keys of the processed dict, in order
Columns ==
    <<"article_id", "title", "link", "creator", "pubdate", "category",
      "description", "source", "scrape_timestamp">>

\* json.dump(articles, f, indent=2, ensure_ascii=False): the list of objects
to_json(articles) == [ fmt |-> "json", complete |-> TRUE, items |-> articles ]

\* df.to_csv(f, index=False): a header line, then one line of cells per article
to_csv(articles) ==
    [ fmt |-> "csv", complete |-> TRUE, header |-> Columns,
      items |-> [ i \in 1..Len(articles) |-> [ c \in 1..Len(Columns) |-> articles[i][Columns[c]] ] ] ]

\* a file whose write failed after m of its items were written
Truncated(content, m) ==
    [ content EXCEPT !.complete = FALSE, !.items = SubSeq(content.items, 1, m) ]

\* datetime.utcnow().strftime('%Y%m%d_%H%M%S')
Strftime(t) == Dec(t)

json_file(t) == "maritime_news_" \o Strftime(t) \o ".json"
csv_file(t) == "maritime_news_" \o Strftime(t) \o ".csv"
latest_json == "maritime_news_latest.json"
latest_csv == "maritime_news_latest.csv"

\* variant: the 'latest' writes reuse the timestamped names
WritesLatestMisnamed(articles, t) ==
    << [ name |-> json_file(t), content |-> to_json(articles) ],
       [ name |-> csv_file(t), content |-> to_csv(articles) ],
       [ name |-> json_file(t), content |-> to_json(articles) ],
       [ name |-> csv_file(t), content |-> to_csv(articles) ] >>

\* the four writes of save_data, in the order the code performs them
Writes(articles, t) ==
    << [ name |-> json_file(t), content |-> to_json(articles) ],
       [ name |-> csv_file(t), content |-> to_csv(articles) ],
       [ name |-> latest_json, content |-> to_json(articles) ],
       [ name |-> latest_csv, content |-> to_csv(articles) ] >>

\* the directory after open(name, 'w') and a complete write
WriteFile(dir, name, content) ==
    [ n \in DOMAIN dir \cup { name } |-> IF n = name THEN content ELSE dir[n] ]

\* the directory after the first k writes of ws completed
RECURSIVE WriteFirst(_, _, _)
WriteFirst(dir, ws, k) ==
    IF k = 0 THEN dir
    ELSE WriteFile(WriteFirst(dir, ws, k - 1), ws[k].name, ws[k].content)

\* what a failing write can leave of its file: nothing changed (open failed),
\* or the file created/emptied and cut short after some of its items
FailedWrite(dir, w) ==
    { dir } \cup { WriteFile(dir, w.name, Truncated(w.content, m)) :
                     m \in 0..(Len(w.content.items) - 1) }

\* ---------------------------------------------------------------- state
VARIABLES
    corpus,        \* the raw articles the news API can serve
    budget,        \* how many invocations of main() the scenario explores
    pc,            \* "start", "scrape", "save", "exit": where main() is
    run,           \* number of invocations of main() started
    now,           \* the clock
    ki,            \* index into keywords of the keyword being processed
    si,            \* 0: the bare keyword query is next; j > 0: sources[j] is next
    all_articles,  \* scrape_all_keywords' all_articles
    seen_ids,      \* scrape_all_keywords' seen_ids
    requests,      \* the requests issued by this run, in order
    last,          \* the last fetch of this run: its kind and the ids it delivered
    returned,      \* raw articles delivered by successful fetches of this run
    files,         \* the data directory: file name -> content
    logged,        \* log records main() and save_data wrote in this run (by kind)
    outcome        \* "running", "ok" (exit code 0), "raised" (exception left main)

vars == <<corpus, budget, pc, run, now, ki, si, all_articles, seen_ids, requests,
          last, returned, files, logged, outcome>>

NoFetch == [ kind |-> "none", ids |-> {} ]

\* the state before main() is first invoked, with an empty data directory
Fresh ==
    /\ pc = "start"
    /\ run = 0
    /\ now = 0
    /\ ki = 1
    /\ si = 0
    /\ all_articles = <<>>
    /\ seen_ids = {}
    /\ requests = <<>>
    /\ last = NoFetch
    /\ returned = {}
    /\ files = [ n \in {} |-> 0 ]
    /\ logged = {}
    /\ outcome = "running"

\* one run against the whole corpus
Init == corpus = RawArticles /\ budget = 1 /\ Fresh

\* MaxRuns consecutive runs against a corpus of one article; the data
\* directory persists from run to run
InitRuns == corpus = OneArticle /\ budget = MaxRuns /\ Fresh

\* ------------------------------------------------------------- actions
\* the process ended: what it held in memory is gone
Forget ==
    /\ ki' = 1
    /\ si' = 0
    /\ all_articles' = <<>>
    /\ seen_ids' = {}
    /\ requests' = <<>>
    /\ last' = NoFetch
    /\ returned' = {}

\* main() up to the first fetch: MaritimeNewsScraper() and the head of
\* scrape_all_keywords.  A missing NEWS_API_KEY raises out of main().
MainStart ==
    /\ pc \in {"start", "exit"}
    /\ run < budget
    /\ run' = run + 1
    /\ now' = now + 1
    /\ Forget
    /\ \E has_key \in BOOLEAN :
         IF has_key
         THEN /\ pc' = IF NumKeywords = 0 THEN "save" ELSE "scrape"
              /\ logged' = {}
              /\ outcome' = "running"
         ELSE /\ pc' = "exit"
              /\ logged' = {"main_error"}
              /\ outcome' = "raised"
    /\ UNCHANGED <<corpus, budget, files>>

\* variant: a failed fetch is retried (the position does not move)
AdvanceRetry ==
    IF last'.kind = "failed"
    THEN UNCHANGED <<ki, si, pc>>
    ELSE IF si < NumSources
         THEN si' = si + 1 /\ ki' = ki /\ pc' = "scrape"
         ELSE /\ si' = 0
              /\ ki' = ki + 1
              /\ pc' = IF ki + 1 > NumKeywords THEN "save" ELSE "scrape"

\* variant: the publisher loop sits inside 'if news_data and ...', so a keyword
\* whose general search brought no article skips its publisher queries
AdvanceSkipSources ==
    IF si < NumSources /\ ~(si = 0 /\ last'.kind # "articles")
    THEN si' = si + 1 /\ ki' = ki /\ pc' = "scrape"
    ELSE /\ si' = 0
         /\ ki' = ki + 1
         /\ pc' = IF ki + 1 > NumKeywords THEN "save" ELSE "scrape"

\* loop control of 'for keyword ... for source ...' after one query
Advance ==
    IF si < NumSources
    THEN /\ si' = si + 1
         /\ ki' = ki
         /\ pc' = "scrape"
    ELSE /\ si' = 0
         /\ ki' = ki + 1
         /\ pc' = IF ki + 1 > NumKeywords THEN "save" ELSE "scrape"

\* the articles a payload delivers
Delivered(news_data) ==
    IF HasArticles(news_data)
    THEN { news_data.articles[i] : i \in 1..Len(news_data.articles) }
    ELSE {}

\* what the last fetch was: failed (None), empty, or carrying articles
FetchRecord(news_data) ==
    [ kind |-> IF news_data = None THEN "failed"
               ELSE IF HasArticles(news_data) THEN "articles" ELSE "empty",
      ids  |-> { create_article_id(a) : a \in Delivered(news_data) } ]

\* the payloads of the two corpora, computed once
AllPayloads == Payloads(RawArticles)
OnePayloads == Payloads(OneArticle)
Responses == IF corpus = RawArticles THEN AllPayloads ELSE OnePayloads

\* one query: fetch_news(query, page_size), which returns the payload or, on
\* a requests.RequestException, logs and returns None; then the caller's loop.
\* (In the source file the lines of fetch_news are out of order, its def line
\* following its parameter block; they are read as the one function they form.)
Query(query, page_size, category) ==
    /\ requests' = Append(requests, Request(query, page_size))
    /\ now' = now + 1
    /\ \E news_data \in Responses \cup { None } :
         LET acc == Absorb([all |-> all_articles, seen |-> seen_ids], news_data, category, now)
         IN  /\ all_articles' = acc.all
             /\ seen_ids' = acc.seen
             /\ last' = FetchRecord(news_data)
             /\ returned' = returned \cup Delivered(news_data)
    /\ Advance
    /\ UNCHANGED <<corpus, budget, run, files, logged, outcome>>

\* the general search of a keyword (page_size defaults to 100)
FetchKeyword ==
    /\ pc = "scrape"
    /\ si = 0
    /\ Query(keywords[ki], DefaultPageSize, keywords[ki])

\* the search of a keyword restricted to one source
FetchSource ==
    /\ pc = "scrape"
    /\ si > 0
    /\ Query(SourceQuery(keywords[ki], sources[si]), SourcePageSize,
             SourceCategory(keywords[ki], sources[si]))

\* a payload with an article whose 'source' is null: process_article raises
\* AttributeError, which no handler of scrape_all_keywords catches; main()
\* logs it and re-raises.
FetchMalformed ==
    /\ pc = "scrape"
    /\ now' = now + 1
    /\ pc' = "exit"
    /\ outcome' = "raised"
    /\ logged' = logged \cup {"main_error"}
    /\ Forget
    /\ UNCHANGED <<corpus, budget, run, files>>

\* save_data on an empty sequence, then the tail of main()
SaveNothing ==
    /\ files' = files
    /\ logged' = logged \cup {"no_articles_warning", "completed"}
    /\ outcome' = "ok"

\* variant: a failing write is caught and logged, the later writes still run
\* and main() ends normally
SaveAllSwallow ==
    LET ws == Writes(all_articles, now)
    IN  \E fail_at \in 0..4 :
          /\ files' = IF fail_at = 0 THEN WriteFirst(files, ws, 4)
                      ELSE WriteFirst(WriteFirst(files, ws, fail_at - 1),
                                      [ i \in 1..(4 - fail_at) |-> ws[fail_at + i] ], 4 - fail_at)
          /\ logged' = logged \cup {"saved", "summary", "completed"}
          /\ outcome' = "ok"

\* save_data on a non-empty sequence: four writes, any of which may fail and
\* raise (fail_at = 0: none fails), then print_summary and the tail of main()
SaveAll ==
    LET ws == Writes(all_articles, now)
    IN  \E fail_at \in 0..4 :
          IF fail_at = 0
          THEN /\ files' = WriteFirst(files, ws, 4)
               /\ logged' = logged \cup {"saved", "summary", "completed"}
               /\ outcome' = "ok"
          ELSE /\ files' \in FailedWrite(WriteFirst(files, ws, fail_at - 1), ws[fail_at])
               /\ logged' = logged \cup {"main_error"}
               /\ outcome' = "raised"

\* variant: the 'if not articles' guard is missing
SaveDataNoGuard ==
    /\ pc = "save"
    /\ pc' = "exit"
    /\ now' = now + 1
    /\ SaveAll
    /\ Forget
    /\ UNCHANGED <<corpus, budget, run>>

\* scraper.save_data(articles) and the rest of main()
SaveData ==
    /\ pc = "save"
    /\ pc' = "exit"
    /\ now' = now + 1
    /\ IF all_articles = <<>> THEN SaveNothing ELSE SaveAll
    /\ Forget
    /\ UNCHANGED <<corpus, budget, run>>

Next == MainStart \/ FetchKeyword \/ FetchSource \/ FetchMalformed \/ SaveData

Spec == Init /\ [][Next]_vars

SpecRuns == InitRuns /\ [][Next]_vars
\* ------------------------------------------------------------ properties
\* identifiers of the entries of a sequence of processed articles
Ids(seq) == { seq[i].article_id : i \in 1..Len(seq) }

\* positions of the entries of seq that bear identifier id
Positions(seq, id) == { i \in 1..Len(seq) : seq[i].article_id = id }

\* the entry of seq that bears identifier id
EntryOf(seq, id) == seq[CHOOSE i \in 1..Len(seq) : seq[i].article_id = id]

RawTitle(r) == Get(r, "title", "")
RawUrl(r) == Get(r, "url", "")

\* the query matrix in catalog order: per keyword, the keyword alone with
\* page size 100, then the keyword with each publisher with page size 50
MatrixSize == NumKeywords * (1 + NumSources)
MatrixAt(n) ==
    LET k == ((n - 1) \div (1 + NumSources)) + 1
        j == (n - 1) % (1 + NumSources)
    IN  IF j = 0
        THEN [ q |-> keywords[k], sortBy |-> "publishedAt", pageSize |-> 100, language |-> "en" ]
        ELSE [ q |-> keywords[k] \o " source:" \o sources[j], sortBy |-> "publishedAt",
               pageSize |-> 50, language |-> "en" ]
Matrix == [ n \in 1..MatrixSize |-> MatrixAt(n) ]

\* C1: after any prefix of the queries no two entries of all_articles share an
\* article_id, and every raw article delivered so far is represented by exactly
\* one entry bearing its identifier, whatever its other fields were.
C1_NoSharedIdentifier ==
    /\ \A i, j \in 1..Len(all_articles) :
         i # j => all_articles[i].article_id # all_articles[j].article_id
    /\ \A r \in returned : Cardinality(Positions(all_articles, create_article_id(r))) = 1

\* two delivered articles equal in title and url but different elsewhere, and a
\* third with another identifier: exactly 2 records
C1_Witness ==
    /\ Len(all_articles) = 2
    /\ \E r1, r2, r3 \in returned :
         /\ r1 # r2
         /\ RawTitle(r1) = RawTitle(r2) /\ RawUrl(r1) = RawUrl(r2)
         /\ create_article_id(r3) # create_article_id(r1)

\* C2 (as claimed): two delivered raw articles that differ in title or in url
\* get different identifiers, and each is kept as an entry of its own.
C2_DifferentArticlesDifferentIds ==
    \A r1, r2 \in returned :
      (RawTitle(r1) # RawTitle(r2) \/ RawUrl(r1) # RawUrl(r2)) =>
        /\ create_article_id(r1) # create_article_id(r2)
        /\ \E i \in 1..Len(all_articles) :
             all_articles[i].title = RawTitle(r1) /\ all_articles[i].link = RawUrl(r1)
        /\ \E i \in 1..Len(all_articles) :
             all_articles[i].title = RawTitle(r2) /\ all_articles[i].link = RawUrl(r2)

\* C3: a fetch that fails returns no data without raising: the step leaves
\* all_articles, seen_ids and the files as they were, the run keeps running,
\* the request just issued is the next query of the matrix and no earlier one
\* again, and the loop moves on, so that the scrape ends with the whole matrix
\* issued.
C3_FailedFetchSkipped ==
    [][ (pc = "scrape" /\ last'.kind = "failed") =>
          /\ all_articles' = all_articles
          /\ seen_ids' = seen_ids
          /\ returned' = returned
          /\ files' = files
          /\ outcome' = "running"
          /\ Len(requests') = Len(requests) + 1
          /\ requests'[Len(requests')] = MatrixAt(Len(requests'))
          /\ \A n \in 1..Len(requests) : requests[n] # requests'[Len(requests')]
          /\ pc' \in {"scrape", "save"}
          /\ (pc' = "scrape") = (Len(requests') < MatrixSize)
          /\ (pc' = "save") => requests' = Matrix ]_vars

\* a fetch failed after articles had been accumulated, and they are all there
C3_Witness ==
    /\ last.kind = "failed"
    /\ Len(all_articles) = 2
    /\ pc = "scrape"

\* C6: the requests issued are, at every moment, the first queries of the
\* matrix in catalog order with their page sizes, one per loop position; every
\* identifier of the last response is in all_articles before the next fetch;
\* each step of the loop issues exactly one fetch; and the scrape returns with
\* exactly len(keywords) x (1 + len(sources)) of them, whatever failed.
C6_OneFetchPerQuery ==
    /\ [] /\ Len(requests) <= MatrixSize
          /\ \A n \in 1..Len(requests) : requests[n] = MatrixAt(n)
          /\ (pc = "scrape") => /\ Len(requests) = (ki - 1) * (1 + NumSources) + si
                                /\ Len(requests) < MatrixSize
          /\ (pc = "save") => Len(requests) = MatrixSize
          /\ last.ids \subseteq Ids(all_articles)
    /\ [][ (pc = "scrape" /\ pc' \in {"scrape", "save"}) =>
             Len(requests') = Len(requests) + 1 ]_vars

\* the scrape returned although its last fetch failed, with articles gathered
C6_Witness ==
    /\ pc = "save"
    /\ Len(requests) = MatrixSize
    /\ last.kind = "failed"
    /\ all_articles # <<>>

\* C8 (as claimed): every article a publisher-qualified query returned carries
\* in all_articles the category that combines keyword and publisher, which is
\* not the bare keyword.
C8_PublisherCategoryAlways ==
    (last.kind = "articles" /\ (Len(requests) - 1) % (1 + NumSources) # 0) =>
      LET k == ((Len(requests) - 1) \div (1 + NumSources)) + 1
          j == (Len(requests) - 1) % (1 + NumSources)
      IN  \A id \in last.ids :
            /\ Cardinality(Positions(all_articles, id)) = 1
            /\ EntryOf(all_articles, id).category
                 = keywords[k] \o " (source: " \o sources[j] \o ")"
            /\ EntryOf(all_articles, id).category # keywords[k]

\* C8 (amended): in a publisher-qualified query step, an article whose
\* identifier was not seen before gets the category combining keyword and
\* publisher, different from the bare keyword; an article whose identifier an
\* earlier query already returned keeps the entry, and the category, it had.
C8_PublisherCategoryWhenFirst ==
    [][ (pc = "scrape" /\ si > 0 /\ last'.kind = "articles") =>
          \A id \in last'.ids :
            /\ Cardinality(Positions(all_articles', id)) = 1
            /\ IF id \in Ids(all_articles)
               THEN EntryOf(all_articles', id) = EntryOf(all_articles, id)
               ELSE /\ EntryOf(all_articles', id).category
                         = keywords[ki] \o " (source: " \o sources[si] \o ")"
                    /\ EntryOf(all_articles', id).category # keywords[ki] ]_vars

\* one article with the bare keyword as category, one with keyword and publisher
C8_Witness ==
    \E i, j \in 1..Len(all_articles) :
      /\ all_articles[i].category = keywords[1]
      /\ all_articles[j].category = keywords[1] \o " (source: " \o sources[1] \o ")"

\* C9: the identifiers of the sequence scrape_all_keywords returns are exactly
\* the identifiers of the raw articles the successful fetches delivered.
C9_IdsAreThoseDelivered ==
    (pc = "save") =>
      /\ Ids(all_articles) = { create_article_id(r) : r \in returned }
      /\ seen_ids = Ids(all_articles)

\* three different raw articles delivered, two identifiers returned
C9_Witness ==
    /\ pc = "save"
    /\ Cardinality(returned) >= 3
    /\ Cardinality(Ids(all_articles)) = 2

\* C10: a step of the scrape keeps every entry of all_articles where and as it
\* was; what it appends are the identifiers of this response not seen before,
\* each once, stamped with this query's time; an identifier seen before is
\* discarded without effect.
C10_EntriesNeverChange ==
    [][ (pc = "scrape" /\ pc' \in {"scrape", "save"}) =>
          /\ Len(all_articles') >= Len(all_articles)
          /\ \A i \in 1..Len(all_articles) : all_articles'[i] = all_articles[i]
          /\ \A i \in (Len(all_articles) + 1)..Len(all_articles') :
               /\ all_articles'[i].article_id \in last'.ids \ seen_ids
               /\ all_articles'[i].scrape_timestamp = IsoZ(now)
          /\ \A id \in last'.ids \ seen_ids : id \in Ids(all_articles') ]_vars

\* a later copy of a kept article, with another author, was discarded
C10_Witness ==
    /\ Len(all_articles) = 2
    /\ \E r \in returned :
         /\ create_article_id(r) = all_articles[1].article_id
         /\ Get(r, "author", "") # all_articles[1].creator
         /\ RawTitle(r) = all_articles[1].title
\* file n is the same in directories d and e (absent in both, or equal)
SameFile(d, e, n) ==
    \/ n \notin DOMAIN d /\ n \notin DOMAIN e
    \/ n \in DOMAIN d /\ n \in DOMAIN e /\ d[n] = e[n]

\* file n of directory d holds content c, written to its end
Holds(d, n, c) == n \in DOMAIN d /\ d[n] = c /\ d[n].complete

\* C4: save_data on an empty sequence creates and modifies no file, logs the
\* warning and returns without error (main() then ends normally).
C4_EmptySavesNothing ==
    [][ (pc = "save" /\ all_articles = <<>>) =>
          /\ files' = files
          /\ DOMAIN files' = DOMAIN files
          /\ "no_articles_warning" \in logged'
          /\ "saved" \notin logged'
          /\ outcome' = "ok"
          /\ pc' = "exit" ]_vars

\* a run that gathered nothing has ended, and the files of an earlier run stand
C4_Witness ==
    /\ pc = "exit"
    /\ "no_articles_warning" \in logged
    /\ latest_json \in DOMAIN files
    /\ files[latest_json].complete
    /\ files[latest_json].items # <<>>

\* C5 (as claimed): every run that ends without an unhandled error has
\* overwritten the latest pair with its own result set, equal to its
\* timestamped snapshot.
C5_LatestIsAlwaysThisRun ==
    [][ (pc = "save" /\ outcome' = "ok") =>
          /\ Holds(files', latest_json, to_json(all_articles))
          /\ Holds(files', latest_csv, to_csv(all_articles))
          /\ Holds(files', json_file(now), files'[latest_json])
          /\ Holds(files', csv_file(now), files'[latest_csv]) ]_vars

\* C5 (amended): a run that ends without an unhandled error and gathered at
\* least one article has overwritten the latest pair with its own result set,
\* equal to its timestamped snapshot; a run that gathered none leaves the
\* latest pair as it found it (absent, or an earlier run's).
C5_LatestIsThisRunUnlessEmpty ==
    [][ (pc = "save" /\ outcome' = "ok") =>
          IF all_articles # <<>>
          THEN /\ Holds(files', latest_json, to_json(all_articles))
               /\ Holds(files', latest_csv, to_csv(all_articles))
               /\ Holds(files', json_file(now), files'[latest_json])
               /\ Holds(files', csv_file(now), files'[latest_csv])
          ELSE /\ SameFile(files, files', latest_json)
               /\ SameFile(files, files', latest_csv) ]_vars

\* a second run has saved: the latest JSON is no longer the first run's snapshot
C5_Witness ==
    /\ pc = "exit"
    /\ outcome = "ok"
    /\ "saved" \in logged
    /\ latest_json \in DOMAIN files
    /\ \E n, m \in DOMAIN files :
         /\ n # latest_json /\ m # latest_json /\ n # m
         /\ files[n].fmt = "json" /\ files[n].complete
         /\ files[m].fmt = "json" /\ files[m].complete
         /\ files[n] # files[latest_json]
         /\ files[m] = files[latest_json]

\* C7: save_data on a non-empty sequence either completes all four writes and
\* main() ends normally, or one write fails: then the error leaves main(),
\* neither the summary nor the completion message is logged, the writes before
\* the failing one stand complete, the later ones were not attempted, the
\* failing one left its file untouched or cut short, and nothing is cleaned up.
C7_WriteFailureIsFatal ==
    [][ (pc = "save" /\ all_articles # <<>>) =>
          LET names == << json_file(now), csv_file(now), latest_json, latest_csv >>
              contents == << to_json(all_articles), to_csv(all_articles),
                             to_json(all_articles), to_csv(all_articles) >>
          IN  /\ pc' = "exit"
              /\ \A n \in (DOMAIN files \cup DOMAIN files') \ { names[i] : i \in 1..4 } :
                   SameFile(files, files', n)
              /\ \/ /\ outcome' = "ok"
                    /\ \A i \in 1..4 : Holds(files', names[i], contents[i])
                    /\ {"saved", "summary", "completed"} \subseteq logged'
                 \/ /\ outcome' = "raised"
                    /\ "main_error" \in logged'
                    /\ logged' \cap {"saved", "summary", "completed"} = {}
                    /\ \E k \in 1..4 :
                         /\ \A i \in 1..(k - 1) : Holds(files', names[i], contents[i])
                         /\ \A i \in (k + 1)..4 : SameFile(files, files', names[i])
                         /\ \/ SameFile(files, files', names[k])
                            \/ /\ names[k] \in DOMAIN files'
                               /\ ~files'[names[k]].complete ]_vars

\* the run raised with its timestamped JSON written and no latest JSON
C7_Witness ==
    /\ pc = "exit"
    /\ outcome = "raised"
    /\ latest_json \notin DOMAIN files
    /\ \E n \in DOMAIN files :
         /\ files[n].fmt = "json" /\ files[n].complete
         /\ Len(files[n].items) = 2
====
